---- MODULE Spec2Model ----
(***************************************************************************)
(* The four search benchmark programs of RUST_VS_PYTHON                    *)
(*   A/Searching/lin_search, A/Searching/jump_search,                      *)
(*   SEARCHING_PREPROCESSING/Searching/bin_search and .../int_search.      *)
(* Each search function is modelled one loop iteration per step, over the  *)
(* locals it keeps; a panic (index out of bounds, arithmetic overflow      *)
(* under overflow-checks) ends the call with pc = "panicked".              *)
(*                                                                         *)
(* Array indices are 0-based as in the source: At(a, i) is a[i].           *)
(* TLC's integers are 32 bits wide, so the i32 element type is modelled at *)
(* IntBits bits and usize at UsizeBits bits; every wrap is taken modulo    *)
(* the modelled width.                                                     *)
(***************************************************************************)
EXTENDS Integers, Sequences, FiniteSets, TLC

\* ---------------------------------------------------------------- bounds
\* Longest array handed directly to a search function.
MaxLen == 5
\* Largest ARRAY_SIZE a modelled run of main generates.
MaxArraySize == 4
\* Modelled width of i32 and of usize.
IntBits == 16
UsizeBits == 24

\* ------------------------------------------------------ program constants
MIN == 1000
MAX == 10000
el_les == 50
el_grt == 10006

I32Min == -(2 ^ (IntBits - 1))
I32Max == (2 ^ (IntBits - 1)) - 1
UsizeMax == (2 ^ UsizeBits) - 1

\* ---------------------------------------------------------------- helpers
Min2(x, y) == IF x < y THEN x ELSE y

At(a, i) == a[i + 1]

\* A slice index is checked: a[i] panics unless 0 <= i < a.len().
InBounds(a, i) == 0 <= i /\ i < Len(a)

Range(a) == {a[k] : k \in 1..Len(a)}

IsSorted(a) == \A k \in 1..(Len(a) - 1) : a[k] <= a[k + 1]

\* Option<usize>
None == [some |-> FALSE, idx |-> 0]
Some(j) == [some |-> TRUE, idx |-> j]

\* i32 subtraction: the exact difference, whether it left the i32 range, and
\* the two's-complement value a build without overflow checks continues with.
I32Overflows(x) == x < I32Min \/ x > I32Max
I32Wrap(x) == ((x - I32Min) % (2 ^ IntBits)) + I32Min

\* Integer division truncating toward zero (Rust's / on isize, and the
\* truncation of `as usize` on a finite f64).
TruncDiv(x, y) ==
  IF (x >= 0) = (y > 0) THEN (IF x >= 0 THEN x ELSE -x) \div (IF y > 0 THEN y ELSE -y)
  ELSE -((IF x >= 0 THEN x ELSE -x) \div (IF y > 0 THEN y ELSE -y))

\* `x as usize` for a float x: saturating, negative values become 0.
F64AsUsize(num, den) ==
  LET q == TruncDiv(num, den) IN
  IF q < 0 THEN 0 ELSE IF q > UsizeMax THEN UsizeMax ELSE q

\* (n as f64).sqrt() as usize
usize_sqrt(n) == CHOOSE s \in 0..n : s * s <= n /\ (s + 1) * (s + 1) > n

\* ------------------------------------------------------------------ state
VARIABLES
  alg,             \* which program / search function: linear, binary, jump, interpolation
  overflow_checks, \* the build: TRUE panics on integer overflow, FALSE wraps
  arr,             \* the array (sorted_array of main, arr of the search function)
  target,          \* the search function's target argument
  pc,              \* position of the search call
  low, high,       \* binary_search / interpolation_search window
  prev, step,      \* jump_search block pointer and step
  idx,             \* loop index i of linear_search and of jump_search's scan
  result,          \* the Option<usize> returned
  fault,           \* the panic raised, "none" when none
  wrapped,         \* an i32/usize operation overflowed and wrapped silently
  iters,           \* loop iterations executed by the current call
  calls,           \* direct calls made so far on (arr, target)
  first_outcome,   \* outcome of the first direct call
  mpc,             \* position of main
  array_size,      \* ARRAY_SIZE
  first, last, middle, \* main's query targets read from the array
  qi,              \* number of the query being run, 1..5
  events,          \* what main has done so far, in order
  printed,         \* the search results main has printed, in order
  router,          \* the server's routes: those of handlers.rs or those of main.rs
  proc_visible,    \* sysinfo finds the server's own process
  csv_writable,    \* the CSV file can be opened and written
  items,           \* the items table of the database: id -> name
  next_id,         \* ids handed out so far (Uuid::new_v4 never repeats)
  metrics,         \* the in-memory metrics log, Arc<Mutex<Vec<Metric>>>
  now,             \* the wall clock read by Local::now()
  csv,             \* the CSV file: whether it exists, and its lines
  task,            \* per worker thread: the handler call it is running
  reqs,            \* requests accepted so far
  request,         \* per worker: the request its handler was called with and the database's answer, until the record is written
  restarts         \* times the server process has been started again

search_vars == <<pc, low, high, prev, step, idx, result, fault, wrapped, iters>>
input_vars == <<alg, overflow_checks, arr, target>>
unit_vars == <<calls, first_outcome>>
main_vars == <<mpc, array_size, first, last, middle, qi, events, printed>>
server_vars == <<router, proc_visible, csv_writable, items, next_id, metrics, now, csv, task, reqs, request, restarts>>
vars == <<input_vars, search_vars, unit_vars, main_vars, server_vars>>

Algs == {"linear", "binary", "jump", "interpolation"}

\* No server runs beside a search program: nothing is stored, logged or
\* written.
ServerIdle ==
  /\ router = "none" /\ proc_visible = FALSE /\ csv_writable = FALSE
  /\ items = <<>> /\ next_id = 0
  /\ metrics = <<>> /\ now = 0
  /\ csv = [exists |-> FALSE, lines |-> <<>>]
  /\ task = <<>> /\ reqs = 0 /\ request = <<>> /\ restarts = 0

Halted == pc \in {"returned", "panicked"}

\* What a call came to: the panic raised (or "none"), the value returned, and
\* the array as the call left it.
Outcome == <<fault, result, arr>>

\* ------------------------------------------------------- linear_search

\* linear_search with the early exit that is sound on sorted input only: the
\* scan gives up at the first element above the target
linear_search_iter_sorted_exit(a, t, i) ==
  IF i < Len(a)
  THEN IF At(a, i) = t
       THEN [pc |-> "returned", idx |-> i, result |-> Some(i)]
       ELSE IF At(a, i) > t
       THEN [pc |-> "returned", idx |-> i, result |-> None]
       ELSE [pc |-> "linear_loop", idx |-> i + 1, result |-> None]
  ELSE [pc |-> "returned", idx |-> i, result |-> None]
\* for (i, &val) in arr.iter().enumerate() { if val == target { return Some(i) } } None
linear_search_iter(a, t, i) ==
  IF i < Len(a)
  THEN IF At(a, i) = t
       THEN [pc |-> "returned", idx |-> i, result |-> Some(i)]
       ELSE [pc |-> "linear_loop", idx |-> i + 1, result |-> None]
  ELSE [pc |-> "returned", idx |-> i, result |-> None]

linear_search_step ==
  /\ pc = "linear_loop"
  /\ LET r == linear_search_iter(arr, target, idx) IN
       /\ pc' = r.pc
       /\ idx' = r.idx
       /\ result' = r.result
  /\ iters' = iters + 1
  /\ UNCHANGED <<low, high, prev, step, fault, wrapped>>
  /\ UNCHANGED <<input_vars, unit_vars, main_vars, server_vars>>

\* ------------------------------------------------------- binary_search
\* let mid = (low + high) / 2;   (isize)
binary_mid(lo, hi) == TruncDiv(lo + hi, 2)

\* binary_search with the window closed at mid instead of next to it
\* (low = mid, high = mid): the probed index stays inside the window
binary_search_iter_keep_mid(a, t, lo, hi) ==
  IF lo <= hi
  THEN LET mid == binary_mid(lo, hi) IN
       IF ~InBounds(a, mid)
       THEN [pc |-> "panicked", low |-> lo, high |-> hi, result |-> None,
             fault |-> "index_out_of_bounds"]
       ELSE IF At(a, mid) = t
       THEN [pc |-> "returned", low |-> lo, high |-> hi, result |-> Some(mid),
             fault |-> "none"]
       ELSE IF At(a, mid) < t
       THEN [pc |-> "binary_loop", low |-> mid, high |-> hi, result |-> None,
             fault |-> "none"]
       ELSE [pc |-> "binary_loop", low |-> lo, high |-> mid, result |-> None,
             fault |-> "none"]
  ELSE [pc |-> "returned", low |-> lo, high |-> hi, result |-> None, fault |-> "none"]

binary_search_iter(a, t, lo, hi) ==
  IF lo <= hi
  THEN LET mid == binary_mid(lo, hi) IN
       IF ~InBounds(a, mid)
       THEN [pc |-> "panicked", low |-> lo, high |-> hi, result |-> None,
             fault |-> "index_out_of_bounds"]
       ELSE IF At(a, mid) = t
       THEN [pc |-> "returned", low |-> lo, high |-> hi, result |-> Some(mid),
             fault |-> "none"]
       ELSE IF At(a, mid) < t
       THEN [pc |-> "binary_loop", low |-> mid + 1, high |-> hi, result |-> None,
             fault |-> "none"]
       ELSE [pc |-> "binary_loop", low |-> lo, high |-> mid - 1, result |-> None,
             fault |-> "none"]
  ELSE [pc |-> "returned", low |-> lo, high |-> hi, result |-> None, fault |-> "none"]

binary_search_step ==
  /\ pc = "binary_loop"
  /\ LET r == binary_search_iter(arr, target, low, high) IN
       /\ pc' = r.pc
       /\ low' = r.low
       /\ high' = r.high
       /\ result' = r.result
       /\ fault' = r.fault
  /\ iters' = iters + 1
  /\ UNCHANGED <<prev, step, idx, wrapped>>
  /\ UNCHANGED <<input_vars, unit_vars, main_vars, server_vars>>

\* --------------------------------------------------------- jump_search
\* let step = (n as f64).sqrt() as usize;
jump_step(n) == usize_sqrt(n)

\* prev < n && arr[prev.min(n - 1)] < target     (&& short-circuits, so n - 1
\* is evaluated only when n > prev >= 0)
jump_continue(a, t, p) == p < Len(a) /\ At(a, Min2(p, Len(a) - 1)) < t

\* let start = prev.saturating_sub(step);
jump_start(p, s) == IF p >= s THEN p - s ELSE 0

\* the scan's end without the clamp to n: for i in start..prev
jump_scan_end_unclamped(p, n) == p

\* the scan with the block boundary included: for i in start..(prev + 1).min(n)
jump_scan_end_inclusive(p, n) == Min2(p + 1, n)

\* for i in start..prev.min(n)
jump_scan_end(p, n) == Min2(p, n)

\* the loop condition written with the non-short-circuit `&`: arr[prev.min(n - 1)]
\* is evaluated also when prev < n is false, which on an empty slice panics
\* (n - 1 overflows, or wraps and index 0 is out of bounds)
jump_search_advance_eager(a, t, p, s) ==
  IF Len(a) = 0
  THEN [pc |-> "panicked", prev |-> p, idx |-> 0]
  ELSE IF p < Len(a) /\ At(a, Min2(p, Len(a) - 1)) < t
  THEN [pc |-> "jump_advance", prev |-> p + s, idx |-> 0]
  ELSE [pc |-> "jump_scan", prev |-> p, idx |-> jump_start(p, s)]

\* one evaluation of the while condition, and the body when it holds
jump_search_advance(a, t, p, s) ==
  IF jump_continue(a, t, p)
  THEN [pc |-> "jump_advance", prev |-> p + s, idx |-> 0]
  ELSE [pc |-> "jump_scan", prev |-> p, idx |-> jump_start(p, s)]

jump_advance_step ==
  /\ pc = "jump_advance"
  /\ LET r == jump_search_advance(arr, target, prev, step) IN
       /\ pc' = r.pc
       /\ prev' = r.prev
       /\ idx' = r.idx
  /\ iters' = iters + 1
  /\ UNCHANGED <<low, high, step, result, fault, wrapped>>
  /\ UNCHANGED <<input_vars, unit_vars, main_vars, server_vars>>

\* one step of the scan `for i in start..prev.min(n) { if arr[i] == target ... }`
jump_search_scan(a, t, p, i) ==
  IF i < jump_scan_end(p, Len(a))
  THEN IF ~InBounds(a, i)
       THEN [pc |-> "panicked", idx |-> i, result |-> None,
             fault |-> "index_out_of_bounds"]
       ELSE IF At(a, i) = t
       THEN [pc |-> "returned", idx |-> i, result |-> Some(i), fault |-> "none"]
       ELSE [pc |-> "jump_scan", idx |-> i + 1, result |-> None, fault |-> "none"]
  ELSE [pc |-> "returned", idx |-> i, result |-> None, fault |-> "none"]

jump_scan_step ==
  /\ pc = "jump_scan"
  /\ LET r == jump_search_scan(arr, target, prev, idx) IN
       /\ pc' = r.pc
       /\ idx' = r.idx
       /\ result' = r.result
       /\ fault' = r.fault
  /\ iters' = iters + 1
  /\ UNCHANGED <<low, high, prev, step, wrapped>>
  /\ UNCHANGED <<input_vars, unit_vars, main_vars, server_vars>>

\* ------------------------------------------------ interpolation_search
\* let mut high = arr.len() - 1;    (usize: underflows on an empty slice)
interpolation_high0(a, ovf) ==
  IF Len(a) >= 1
  THEN [high |-> Len(a) - 1, fault |-> "none", wrapped |-> FALSE]
  ELSE IF ovf
  THEN [high |-> 0, fault |-> "arithmetic_overflow", wrapped |-> FALSE]
  ELSE [high |-> UsizeMax, fault |-> "none", wrapped |-> TRUE]

\* ((high - low) as f64 * (target - arr[low]) as f64 / (arr[high] - arr[low]) as f64) as usize
\* d1, d2 are the i32 differences as the build computed them. The product of
\* two integers below 2^53 and its correctly rounded quotient truncate to the
\* integer quotient; a zero divisor gives inf or NaN, which `as usize` turns
\* into usize::MAX or 0.
interpolation_offset(lo, hi, d1, d2) ==
  IF d2 = 0
  THEN (IF (hi - lo) * d1 > 0 THEN UsizeMax ELSE 0)
  ELSE F64AsUsize((hi - lo) * d1, d2)

\* the loop condition of interpolation_search
\* low <= high && arr[low] <= target && arr[high] >= target
interpolation_exit(a, t, lo, hi) ==
  IF lo > hi THEN "exit"
  ELSE IF ~InBounds(a, lo) THEN "index_out_of_bounds"
  ELSE IF ~(At(a, lo) <= t) THEN "exit"
  ELSE IF ~InBounds(a, hi) THEN "index_out_of_bounds"
  ELSE IF ~(At(a, hi) >= t) THEN "exit"
  ELSE "continue"

\* the probe and the update of the window, once the differences are known
interpolation_probe(a, t, lo, hi, d1, d2, w) ==
  LET pos == lo + interpolation_offset(lo, hi, d1, d2) IN
  IF ~InBounds(a, pos)
  THEN [pc |-> "panicked", low |-> lo, high |-> hi, result |-> None,
        fault |-> "index_out_of_bounds", wrapped |-> w]
  ELSE IF At(a, pos) = t
  THEN [pc |-> "returned", low |-> lo, high |-> hi, result |-> Some(pos),
        fault |-> "none", wrapped |-> w]
  ELSE IF At(a, pos) < t
  THEN [pc |-> "interpolation_loop", low |-> pos + 1, high |-> hi, result |-> None,
        fault |-> "none", wrapped |-> w]
  ELSE IF pos = 0
  THEN [pc |-> "returned", low |-> lo, high |-> hi, result |-> None,
        fault |-> "none", wrapped |-> w]
  ELSE [pc |-> "interpolation_loop", low |-> lo, high |-> pos - 1, result |-> None,
        fault |-> "none", wrapped |-> w]

\* one evaluation of the while condition, and the body when it holds
interpolation_search_iter(a, t, lo, hi, ovf, w) ==
  LET c == interpolation_exit(a, t, lo, hi) IN
  IF c = "exit"
  THEN [pc |-> "returned", low |-> lo, high |-> hi, result |-> None,
        fault |-> "none", wrapped |-> w]
  ELSE IF c = "index_out_of_bounds"
  THEN [pc |-> "panicked", low |-> lo, high |-> hi, result |-> None,
        fault |-> c, wrapped |-> w]
  ELSE IF At(a, hi) = At(a, lo)
  THEN [pc |-> "returned", low |-> lo, high |-> hi,
        result |-> (IF At(a, lo) = t THEN Some(lo) ELSE None),
        fault |-> "none", wrapped |-> w]
  ELSE LET x1 == t - At(a, lo)
           x2 == At(a, hi) - At(a, lo)
           over == I32Overflows(x1) \/ I32Overflows(x2)
       IN IF over /\ ovf
          THEN [pc |-> "panicked", low |-> lo, high |-> hi, result |-> None,
                fault |-> "arithmetic_overflow", wrapped |-> w]
          ELSE interpolation_probe(a, t, lo, hi, I32Wrap(x1), I32Wrap(x2), w \/ over)

interpolation_search_step ==
  /\ pc = "interpolation_loop"
  /\ LET r == interpolation_search_iter(arr, target, low, high, overflow_checks, wrapped) IN
       /\ pc' = r.pc
       /\ low' = r.low
       /\ high' = r.high
       /\ result' = r.result
       /\ fault' = r.fault
       /\ wrapped' = r.wrapped
  /\ iters' = iters + 1
  /\ UNCHANGED <<prev, step, idx>>
  /\ UNCHANGED <<input_vars, unit_vars, main_vars, server_vars>>

\* ------------------------------------------------------ entering a call
\* search_entry with linear_search's scan position kept across calls (one
\* iterator shared by the calls, resumed after the element it stopped at)
\* instead of a fresh arr.iter().enumerate()
search_entry_shared_iter ==
  /\ iters' = 0
  /\ result' = None
  /\ IF alg = "linear"
     THEN /\ pc' = "linear_loop"
          /\ idx' = IF Halted THEN idx + 1 ELSE 0
          /\ low' = 0 /\ high' = 0 /\ prev' = 0 /\ step' = 0
          /\ fault' = "none" /\ wrapped' = FALSE
     ELSE IF alg = "binary"
     THEN /\ pc' = "binary_loop"
          /\ idx' = 0
          /\ low' = 0 /\ high' = Len(arr) - 1 /\ prev' = 0 /\ step' = 0
          /\ fault' = "none" /\ wrapped' = FALSE
     ELSE IF alg = "jump"
     THEN /\ pc' = "jump_advance"
          /\ idx' = 0
          /\ low' = 0 /\ high' = 0 /\ prev' = 0 /\ step' = jump_step(Len(arr))
          /\ fault' = "none" /\ wrapped' = FALSE
     ELSE LET h == interpolation_high0(arr, overflow_checks) IN
          /\ pc' = IF h.fault = "none" THEN "interpolation_loop" ELSE "panicked"
          /\ idx' = 0
          /\ low' = 0 /\ high' = h.high /\ prev' = 0 /\ step' = 0
          /\ fault' = h.fault /\ wrapped' = h.wrapped

\* The statements of each function before its loop, on the current arr.
search_entry ==
  /\ iters' = 0
  /\ result' = None
  /\ idx' = 0
  /\ IF alg = "linear"
     THEN /\ pc' = "linear_loop"
          /\ low' = 0 /\ high' = 0 /\ prev' = 0 /\ step' = 0
          /\ fault' = "none" /\ wrapped' = FALSE
     ELSE IF alg = "binary"
     THEN /\ pc' = "binary_loop"
          /\ low' = 0 /\ high' = Len(arr) - 1 /\ prev' = 0 /\ step' = 0
          /\ fault' = "none" /\ wrapped' = FALSE
     ELSE IF alg = "jump"
     THEN /\ pc' = "jump_advance"
          /\ low' = 0 /\ high' = 0 /\ prev' = 0 /\ step' = jump_step(Len(arr))
          /\ fault' = "none" /\ wrapped' = FALSE
     ELSE LET h == interpolation_high0(arr, overflow_checks) IN
          /\ pc' = IF h.fault = "none" THEN "interpolation_loop" ELSE "panicked"
          /\ low' = 0 /\ high' = h.high /\ prev' = 0 /\ step' = 0
          /\ fault' = h.fault /\ wrapped' = h.wrapped

\* --------------------------------------------- a direct call (unit test)
\* Values an array element or a target is drawn from: the ends of the i32
\* range, values of the harness range [MIN, MAX) with uneven gaps, and
\* targets outside the range (MAX itself among them) or between two array
\* values.
ArrValues == {I32Min, MIN, MIN + 1, MIN + 3, MAX - 1, I32Max}
Targets == ArrValues \cup {0, el_les, MIN + 2, MAX, el_grt}

SortedArrays(n) == {a \in UNION {[1..k -> ArrValues] : k \in 0..n} : IsSorted(a)}

\* The array of the concrete scenario, and its targets.
ScenarioArr == <<2, 4, 4, 6, 8, 10>>
ScenarioTargets == {2, 4, 5, 10}

Init ==
  /\ alg \in Algs
  /\ overflow_checks \in BOOLEAN
  /\ \/ arr \in SortedArrays(MaxLen) /\ target \in Targets
     \/ arr = ScenarioArr /\ target \in ScenarioTargets
  /\ pc = "idle"
  /\ low = 0 /\ high = 0 /\ prev = 0 /\ step = 0 /\ idx = 0
  /\ result = None /\ fault = "none" /\ wrapped = FALSE /\ iters = 0
  /\ calls = 0 /\ first_outcome = <<"none", None, <<>>>>
  /\ mpc = "unit" /\ array_size = 0
  /\ first = 0 /\ last = 0 /\ middle = 0 /\ qi = 0 /\ events = <<>>
  /\ printed = <<>>
  /\ ServerIdle

\* The function is called on (arr, target); a second call is made on the same
\* arguments once the first has ended.
call_search ==
  /\ mpc = "unit"
  /\ calls < 2
  /\ pc = "idle" \/ Halted
  /\ calls' = calls + 1
  /\ first_outcome' = IF calls = 1 THEN Outcome ELSE first_outcome
  /\ search_entry
  /\ UNCHANGED <<input_vars, main_vars, server_vars>>

SearchStep ==
  \/ linear_search_step
  \/ binary_search_step
  \/ jump_advance_step
  \/ jump_scan_step
  \/ interpolation_search_step

Next == call_search \/ SearchStep

Spec == Init /\ [][Next]_vars

\* ------------------------------- linear_search called on any array
\* linear_search takes any slice: the arrays of this specification are all
\* the sequences of at most MaxAnyLen values, in any order and with repeats.
MaxAnyLen == 3

AnyArrays(n) == UNION {[1..k -> ArrValues] : k \in 0..n}

LinearInit ==
  /\ alg = "linear"
  /\ overflow_checks \in BOOLEAN
  /\ arr \in AnyArrays(MaxAnyLen) /\ target \in Targets
  /\ pc = "idle"
  /\ low = 0 /\ high = 0 /\ prev = 0 /\ step = 0 /\ idx = 0
  /\ result = None /\ fault = "none" /\ wrapped = FALSE /\ iters = 0
  /\ calls = 0 /\ first_outcome = <<"none", None, <<>>>>
  /\ mpc = "unit" /\ array_size = 0
  /\ first = 0 /\ last = 0 /\ middle = 0 /\ qi = 0 /\ events = <<>>
  /\ printed = <<>>
  /\ ServerIdle

LinearNext == call_search \/ linear_search_step

LinearSpec == LinearInit /\ [][LinearNext]_vars

\* ------------------------------------------------------------------ main
\* the range with its upper end included: gen_range(MIN..=MAX)
gen_range_inclusive(lo, hi) == {v \in Targets : lo <= v /\ v <= hi}

\* rng.gen_range(MIN..MAX): any value of the half-open range; the model
\* draws from those of Targets that lie in it.
gen_range(lo, hi) == {v \in Targets : lo <= v /\ v < hi}

\* arr.sort()
RECURSIVE insert_sorted(_, _)
insert_sorted(a, v) ==
  IF a = <<>> THEN <<v>>
  ELSE IF v <= Head(a) THEN <<v>> \o a
  ELSE <<Head(a)>> \o insert_sorted(Tail(a), v)

\* the array left as generated
sort_skipped(a) == a

RECURSIVE sort(_)
sort(a) == IF a = <<>> THEN <<>> ELSE insert_sorted(sort(Tail(a)), Head(a))

\* fn generate_sorted_random_array(n): every array it can return
generate_sorted_random_array(n) == {sort(raw) : raw \in [1..n -> gen_range(MIN, MAX)]}

\* the searches with last and middle exchanged
query_order_swapped == <<"first", "middle", "last", "el_les", "el_grt">>

\* the searches without the last one
query_order_short == <<"first", "last", "middle", "el_les">>

\* The five searches of main, in the order of its statements.
query_order == <<"first", "last", "middle", "el_les", "el_grt">>

\* the argument main passes to the k-th search
query_target(k) ==
  IF query_order[k] = "first" THEN first
  ELSE IF query_order[k] = "last" THEN last
  ELSE IF query_order[k] = "middle" THEN middle
  ELSE IF query_order[k] = "el_les" THEN el_les
  ELSE el_grt

\* the print_log of the process_info call that follows the k-th search
query_label(k) ==
  IF query_order[k] = "first" THEN "First Element Search"
  ELSE IF query_order[k] = "last" THEN "Last Element Search"
  ELSE IF query_order[k] = "middle" THEN "Middle Element Search"
  ELSE IF query_order[k] = "el_les" THEN "Element < MIN Search"
  ELSE "Element > MAX Search"

\* print_log of the first process_info call of each program
before_label(a) ==
  IF a = "linear" THEN "Before Linear Search"
  ELSE IF a = "binary" THEN "Before Binary Search"
  ELSE IF a = "jump" THEN "Before Jumpary Search"
  ELSE "Before Interpolation Search"

\* every program unwrapping the result of the first three searches
unwraps_all(a, k) == query_order[k] \in {"first", "last", "middle"}

\* lin_search, bin_search and int_search .unwrap() the result of the first
\* three searches; jump_search's main prints the Option itself.
unwraps(a, k) == a # "jump" /\ query_order[k] \in {"first", "last", "middle"}

\* process_info(.., print_log, ..): prints the stage marker
process_info(label) == <<"process_info", label>>

MainInit ==
  /\ alg \in Algs
  /\ overflow_checks \in BOOLEAN
  /\ arr = <<>> /\ target = 0
  /\ pc = "idle"
  /\ low = 0 /\ high = 0 /\ prev = 0 /\ step = 0 /\ idx = 0
  /\ result = None /\ fault = "none" /\ wrapped = FALSE /\ iters = 0
  /\ calls = 0 /\ first_outcome = <<"none", None, <<>>>>
  /\ mpc = "start" /\ array_size \in 1..MaxArraySize
  /\ first = 0 /\ last = 0 /\ middle = 0 /\ qi = 0 /\ events = <<>>
  /\ printed = <<>>
  /\ ServerIdle

\* start_time, sys, pid; process_info("Before ... Search")
main_start ==
  /\ mpc = "start"
  /\ mpc' = "generate"
  /\ events' = Append(events, process_info(before_label(alg)))
  /\ UNCHANGED <<array_size, first, last, middle, qi, printed>>
  /\ UNCHANGED <<input_vars, search_vars, unit_vars, server_vars>>

\* let sorted_array = generate_sorted_random_array(ARRAY_SIZE); process_info(..)
main_generate ==
  /\ mpc = "generate"
  /\ arr' \in generate_sorted_random_array(array_size)
  /\ mpc' = "targets"
  /\ events' = events \o <<<<"generate", "">>, process_info("Array Generation & Sort")>>
  /\ UNCHANGED <<array_size, first, last, middle, qi, printed>>
  /\ UNCHANGED <<alg, overflow_checks, target, search_vars, unit_vars, server_vars>>

\* let first = &sorted_array[0]; let last = &sorted_array[ARRAY_SIZE - 1];
\* let middle = &sorted_array[ARRAY_SIZE/2]; println!(...)
main_targets ==
  /\ mpc = "targets"
  /\ IF InBounds(arr, 0) /\ InBounds(arr, array_size - 1) /\ InBounds(arr, array_size \div 2)
     THEN /\ first' = At(arr, 0)
          /\ last' = At(arr, array_size - 1)
          /\ middle' = At(arr, array_size \div 2)
          /\ mpc' = "call"
          /\ qi' = 1
          /\ events' = Append(events, <<"println", "targets">>)
     ELSE /\ mpc' = "panicked"
          /\ UNCHANGED <<first, last, middle, qi, events>>
  /\ UNCHANGED <<array_size, printed>>
  /\ UNCHANGED <<input_vars, search_vars, unit_vars, server_vars>>

\* the call of the search function inside the k-th println!
main_call ==
  /\ mpc = "call"
  /\ target' = query_target(qi)
  /\ search_entry
  /\ mpc' = "searching"
  /\ events' = Append(events, <<"call", query_order[qi]>>)
  /\ UNCHANGED <<array_size, first, last, middle, qi, printed>>
  /\ UNCHANGED <<alg, overflow_checks, arr, unit_vars, server_vars>>

\* the search has ended: println! of the result (after .unwrap() where the
\* program unwraps), then process_info(label); a panic ends the process
main_return ==
  /\ mpc = "searching"
  /\ Halted
  /\ IF pc = "panicked" \/ (unwraps(alg, qi) /\ ~result.some)
     THEN /\ mpc' = "panicked"
          /\ UNCHANGED <<qi, events, printed>>
     ELSE /\ events' = events \o <<<<"return", query_order[qi]>>, process_info(query_label(qi))>>
          /\ printed' = Append(printed, result)
          /\ mpc' = IF qi = Len(query_order) THEN "done" ELSE "call"
          /\ qi' = IF qi = Len(query_order) THEN qi ELSE qi + 1
  /\ pc' = "idle"
  /\ UNCHANGED <<low, high, prev, step, idx, result, fault, wrapped, iters>>
  /\ UNCHANGED <<array_size, first, last, middle>>
  /\ UNCHANGED <<input_vars, unit_vars, server_vars>>

MainNext ==
  \/ main_start
  \/ main_generate
  \/ main_targets
  \/ main_call
  \/ SearchStep
  \/ main_return

MainSpec == MainInit /\ [][MainNext]_vars

\* A run of main for every value the ARRAY_SIZE constant can be given, zero
\* included.
ConfigInit ==
  /\ alg \in Algs
  /\ overflow_checks \in BOOLEAN
  /\ arr = <<>> /\ target = 0
  /\ pc = "idle"
  /\ low = 0 /\ high = 0 /\ prev = 0 /\ step = 0 /\ idx = 0
  /\ result = None /\ fault = "none" /\ wrapped = FALSE /\ iters = 0
  /\ calls = 0 /\ first_outcome = <<"none", None, <<>>>>
  /\ mpc = "start" /\ array_size \in 0..MaxArraySize
  /\ first = 0 /\ last = 0 /\ middle = 0 /\ qi = 0 /\ events = <<>>
  /\ printed = <<>>
  /\ ServerIdle

ConfigSpec == ConfigInit /\ [][MainNext]_vars

\* ---------------------------------------------------------------- server
\* The web server: its routes over the items table, each measured and
\* recorded in the metrics log and in the CSV file.
MaxRequests == 2
MaxBulk == 2

\* the worker threads of the runtime; a handler call runs on one of them
Workers == {"w1", "w2"}

\* struct Metric, as serialised by the csv writer: one field per column
CsvHeader ==
  <<"timestamp", "operation", "execution_time_ms", "memory_mb", "network_latency_ms">>
serialize(m) ==
  <<m.timestamp, m.operation, m.execution_time_ms, m.memory_mb, m.network_latency_ms>>

NoMetric ==
  [timestamp |-> 0, operation |-> "", execution_time_ms |-> 0, memory_mb |-> 0,
   network_latency_ms |-> 0]

\* a worker with no handler call in hand; op, status and body are those of
\* the response it sent last
IdleTask ==
  [pc |-> "idle", op |-> "", mem_before |-> 0, mem_after |-> 0, metric |-> NoMetric,
   file_exists |-> FALSE, status |-> 0, body |-> <<>>, probe |-> <<>>]

\* the parts of a request the handlers branch on: the id of the path, whether
\* the JSON body has a string name / description, the length of the body when
\* it is an array (-1 when it is not), and how the database answered
NoRequest == [id |-> 0, has_name |-> FALSE, has_desc |-> FALSE, len |-> -1, db |-> "ok"]

\* worker w's handler is called with request r
Received(w, r) == request' = [request EXCEPT ![w] = r]

\* what sysinfo's process table can hold for the server's pid: memory in KB
ProcTable ==
  IF proc_visible THEN {[found |-> TRUE, memory |-> kb] : kb \in {3072, 5120}}
  ELSE {[found |-> FALSE, memory |-> 0]}

\* the sampler with .unwrap() in place of .unwrap_or(0.0)
sample_proc_memory_unwrap(p) == [panicked |-> ~p.found, mb |-> p.memory \div 1024]

\* fn sample_proc_memory_mb: .find(pid).map(memory / 1024).unwrap_or(0.0)
sample_proc_memory_mb(p) ==
  [panicked |-> FALSE, mb |-> IF p.found THEN p.memory \div 1024 ELSE 0]

\* the steps between the clock's start and its stop that take time
Position(trace, e) == CHOOSE k \in 1..Len(trace) : trace[k] = e
elapsed(trace) ==
  Cardinality({k \in (Position(trace, "clock_start") + 1)..(Position(trace, "clock_stop") - 1) :
                 trace[k] \in {"open", "op"}})

\* the instrumentation steps of each handler, in statement order
probe_create ==
  IF router = "handlers"
  THEN <<"mem_before", "open", "clock_start", "op", "clock_stop", "mem_after">>
  ELSE <<"mem_before", "clock_start", "open", "op", "clock_stop", "mem_after">>
probe_bulk(k) ==
  <<"mem_before", "open", "clock_start", "op">> \o [i \in 1..k |-> "op"]
     \o <<"op", "clock_stop", "mem_after">>
probe_read_all ==
  IF router = "handlers"
  THEN <<"mem_before", "open", "clock_start", "op", "op", "clock_stop", "rows", "mem_after">>
  ELSE <<"mem_before", "clock_start", "open", "op", "op", "rows", "clock_stop", "mem_after">>
probe_read_one ==
  IF router = "handlers"
  THEN <<"mem_before", "open", "clock_start", "op", "clock_stop", "mem_after">>
  ELSE <<"mem_before", "clock_start", "open", "op", "clock_stop", "mem_after">>
probe_update(has_name, has_desc) ==
  LET ops == (IF has_name THEN <<"op">> ELSE <<>>) \o (IF has_desc THEN <<"op">> ELSE <<>>) IN
  IF router = "handlers"
  THEN <<"open", "mem_before", "clock_start">> \o ops \o <<"clock_stop", "mem_after">>
  ELSE <<"open", "mem_before">> \o ops \o <<"mem_after">>
probe_delete ==
  IF router = "handlers"
  THEN <<"mem_before", "open", "clock_start", "op", "clock_stop", "mem_after">>
  ELSE <<"mem_before", "clock_start", "open", "op", "clock_stop", "mem_after">>

\* let exec = start.elapsed(); main.rs's update route has `let exec = 0.0`
exec_of(trace) ==
  IF \E k \in 1..Len(trace) : trace[k] = "clock_start" THEN elapsed(trace) ELSE 0

\* the outcomes of the database calls of one request
DbResults == {"ok", "open_err", "exec_err"}

\* ids a request path can name: every id handed out so far, in the table or
\* deleted from it, and one that never was
PathIds == 0..next_id

ServerInit ==
  /\ alg = "linear" /\ overflow_checks = FALSE
  /\ arr = <<>> /\ target = 0
  /\ pc = "idle"
  /\ low = 0 /\ high = 0 /\ prev = 0 /\ step = 0 /\ idx = 0
  /\ result = None /\ fault = "none" /\ wrapped = FALSE /\ iters = 0
  /\ calls = 0 /\ first_outcome = <<"none", None, <<>>>>
  /\ mpc = "server" /\ array_size = 0
  /\ first = 0 /\ last = 0 /\ middle = 0 /\ qi = 0 /\ events = <<>>
  /\ printed = <<>>
  /\ router \in {"handlers", "main"}
  /\ proc_visible \in BOOLEAN
  /\ csv_writable \in BOOLEAN
  /\ items = [i \in {1} |-> [name |-> "Example Item", description |-> "example"]]
  /\ next_id = 1
  /\ metrics = <<>> /\ now = 1
  /\ csv = [exists |-> FALSE, lines |-> <<>>]
  /\ task = [w \in Workers |-> IdleTask]
  /\ request = [w \in Workers |-> NoRequest]
  /\ reqs = 0 /\ restarts = 0

\* A request is taken by an idle worker; the workers being alike, by w1
\* whenever w1 is idle.
Accepts(w) ==
  /\ mpc = "server" /\ task[w].pc = "idle" /\ reqs < MaxRequests
  /\ w = "w1" \/ task["w1"].pc # "idle"

\* the handler returns its response; nothing is recorded
Respond(w, op, status, body, probe) ==
  /\ task' = [task EXCEPT ![w] = [IdleTask EXCEPT !.op = op, !.status = status,
                                                  !.body = body, !.probe = probe]]
  /\ reqs' = reqs + 1
  /\ UNCHANGED <<metrics, now, csv>>

\* the handler has built its Metric (timestamp: Local::now()) and goes on to
\* record it; status and body are the response it will send afterwards
Measured(w, op, operation, exec, mem, before, after, status, body, probe) ==
  /\ task' = [task EXCEPT ![w] =
       [pc |-> "push", op |-> op, mem_before |-> before, mem_after |-> after,
        metric |-> [timestamp |-> now, operation |-> operation,
                    execution_time_ms |-> exec, memory_mb |-> mem,
                    network_latency_ms |-> 0],
        file_exists |-> FALSE, status |-> status, body |-> body, probe |-> probe]]
  /\ now' = now + 1
  /\ reqs' = reqs + 1
  /\ UNCHANGED <<metrics, csv>>

Unchanged_nonserver == UNCHANGED <<input_vars, search_vars, unit_vars, main_vars>>
Unchanged_env == UNCHANGED <<router, proc_visible, csv_writable, restarts>>

\* a panic inside the handler: the task ends and no response is sent
Aborted(w, op) == Respond(w, op, 0, <<>>, <<>>)

\* let mem_mb = mem_after - mem_before
mem_delta(before, after) == after - before

\* the second sample, the Metric and the hand-over to the recording steps
Finish(w, op, operation, before, pa, status, body, probe) ==
  LET after == sample_proc_memory_mb(pa) IN
  IF after.panicked THEN Aborted(w, op)
  ELSE Measured(w, op, operation, exec_of(probe), mem_delta(before.mb, after.mb),
                before.mb, after.mb, status, body, probe)

\* INSERT INTO items (id, name, description)
insert_item(tbl, id, name, description) ==
  [i \in DOMAIN tbl \cup {id} |->
     IF i = id THEN [name |-> name, description |-> description] ELSE tbl[i]]

\* DELETE FROM items, without the WHERE clause, when the id is in the table
delete_row_all(tbl, id) == IF id \in DOMAIN tbl THEN <<>> ELSE tbl

\* DELETE FROM items WHERE id = ?1
delete_row(tbl, id) == [i \in DOMAIN tbl \ {id} |-> tbl[i]]

\* GET /api/database
get_database(w) ==
  /\ Accepts(w)
  /\ \E db \in DbResults :
       IF db = "ok" THEN Respond(w, "get_database", 200, items, <<>>)
       ELSE Respond(w, "get_database", 500, <<>>, <<>>)
  /\ UNCHANGED <<items, next_id>>
  /\ Received(w, NoRequest)
  /\ Unchanged_env /\ Unchanged_nonserver

\* GET /api/metrics: metrics.lock().clone()
get_metrics(w) ==
  /\ Accepts(w)
  /\ Respond(w, "get_metrics", 200, metrics, <<>>)
  /\ UNCHANGED <<items, next_id>>
  /\ Received(w, NoRequest)
  /\ Unchanged_env /\ Unchanged_nonserver

\* the JSON bodies posted to /api/metrics_ingest: all fields, or none
IngestPayloads ==
  {[operation |-> "CLIENT_READ", execution_time_ms |-> 7, memory_mb |-> 1],
   [k \in {} |-> 0]}

\* payload.get(key)...unwrap_or(default)
get_or(payload, key, default) ==
  IF key \in DOMAIN payload THEN payload[key] ELSE default

\* POST /api/metrics_ingest
ingest_metrics(w) ==
  /\ Accepts(w)
  /\ \E payload \in IngestPayloads :
       Measured(w, "ingest_metrics", get_or(payload, "operation", "UNKNOWN"),
                get_or(payload, "execution_time_ms", 0), get_or(payload, "memory_mb", 0),
                0, 0, 201, <<>>, <<>>)
  /\ UNCHANGED <<items, next_id>>
  /\ Received(w, NoRequest)
  /\ Unchanged_env /\ Unchanged_nonserver

\* POST /api/create
create_item(w) ==
  /\ Accepts(w)
  /\ next_id' = next_id + 1
  /\ \E db \in DbResults, pb \in ProcTable, pa \in ProcTable :
       LET before == sample_proc_memory_mb(pb) IN
       IF before.panicked THEN Aborted(w, "create") /\ UNCHANGED items
       ELSE IF db = "open_err" THEN Respond(w, "create", 500, <<>>, <<>>) /\ UNCHANGED items
       ELSE /\ items' = IF db = "ok" THEN insert_item(items, next_id + 1, "a", "") ELSE items
            /\ Finish(w, "create", "CREATE", before, pa, 201, <<>>, probe_create)
  /\ Received(w, NoRequest)
  /\ Unchanged_env /\ Unchanged_nonserver

\* the JSON bodies posted to /api/bulk_create: not an array, or an array
BulkPayloads ==
  {[is_array |-> FALSE, len |-> 0]} \cup {[is_array |-> TRUE, len |-> k] : k \in 0..MaxBulk}

\* let _ = tx.execute(INSERT ...): the inserts of a body of k items whose
\* error the loop drops; the transaction goes on with the others
InsertFailures(k) == SUBSET (1..k)

\* POST /api/bulk_create (a route of handlers.rs only)
bulk_create(w) ==
  /\ Accepts(w)
  /\ router = "handlers"
  /\ \E db \in DbResults, payload \in BulkPayloads, pb \in ProcTable, pa \in ProcTable :
     \E failed \in InsertFailures(payload.len) :
       LET before == sample_proc_memory_mb(pb)
           k == payload.len
           executed == {next_id + j : j \in (1..k) \ failed}
           inserted == [i \in DOMAIN items \cup executed |->
                          IF i \in DOMAIN items THEN items[i]
                          ELSE [name |-> "a", description |-> ""]]
       IN
       /\ Received(w, [id |-> 0, has_name |-> FALSE, has_desc |-> FALSE,
                       len |-> IF payload.is_array THEN k ELSE -1, db |-> db])
       /\ IF before.panicked
          THEN Aborted(w, "bulk_create") /\ UNCHANGED <<items, next_id>>
          ELSE IF db = "open_err"
          THEN Respond(w, "bulk_create", 500, <<>>, <<>>) /\ UNCHANGED <<items, next_id>>
          ELSE IF ~payload.is_array
          THEN Respond(w, "bulk_create", 400, <<>>, <<>>) /\ UNCHANGED <<items, next_id>>
          ELSE IF db = "exec_err"
          THEN /\ Respond(w, "bulk_create", 500, <<>>, <<>>)
               /\ next_id' = next_id + k
               /\ UNCHANGED items
          ELSE /\ items' = inserted
               /\ next_id' = next_id + k
               /\ Finish(w, "bulk_create", "BULK_CREATE_" \o ToString(k), before, pa,
                         201, <<>>, probe_bulk(k))
  /\ Unchanged_env /\ Unchanged_nonserver

\* GET /api/read
read_all(w) ==
  /\ Accepts(w)
  /\ \E db \in DbResults, pb \in ProcTable, pa \in ProcTable :
       LET before == sample_proc_memory_mb(pb) IN
       IF before.panicked THEN Aborted(w, "read_all")
       ELSE IF db # "ok" THEN Respond(w, "read_all", 500, <<>>, <<>>)
       ELSE Finish(w, "read_all", "READ_ALL", before, pa, 200, items, probe_read_all)
  /\ UNCHANGED <<items, next_id>>
  /\ Received(w, NoRequest)
  /\ Unchanged_env /\ Unchanged_nonserver

\* GET /api/read/:id
read_one(w) ==
  /\ Accepts(w)
  /\ \E id \in PathIds, db \in DbResults, pb \in ProcTable, pa \in ProcTable :
       LET before == sample_proc_memory_mb(pb) IN
       IF before.panicked THEN Aborted(w, "read_one")
       ELSE IF db # "ok" THEN Respond(w, "read_one", 500, <<>>, <<>>)
       ELSE IF id \in DOMAIN items
       THEN Finish(w, "read_one", "READ (Description)", before, pa, 200, <<items[id]>>,
                   probe_read_one)
       ELSE Finish(w, "read_one", "READ (Description)", before, pa, 404, <<>>,
                   probe_read_one)
  /\ UNCHANGED <<items, next_id>>
  /\ Received(w, NoRequest)
  /\ Unchanged_env /\ Unchanged_nonserver

\* UPDATE turned into an upsert: a row is written for the id also when the
\* table has none (INSERT ... ON CONFLICT(id) DO UPDATE)
update_rows_upsert(tbl, id, has_name, has_desc) ==
  [i \in DOMAIN tbl \cup (IF has_name \/ has_desc THEN {id} ELSE {}) |->
     IF i = id
     THEN [name |-> IF has_name THEN "b" ELSE IF i \in DOMAIN tbl THEN tbl[i].name ELSE "",
           description |-> IF has_desc THEN "d"
                           ELSE IF i \in DOMAIN tbl THEN tbl[i].description ELSE ""]
     ELSE tbl[i]]

\* UPDATE items SET name = ?1 WHERE id = ?2; UPDATE items SET description = ..
update_rows(tbl, id, has_name, has_desc) ==
  [i \in DOMAIN tbl |->
     IF i = id
     THEN [name |-> IF has_name THEN "b" ELSE tbl[i].name,
           description |-> IF has_desc THEN "d" ELSE tbl[i].description]
     ELSE tbl[i]]

\* PUT /api/update/:id
update_item(w) ==
  /\ Accepts(w)
  /\ \E id \in PathIds, has_name \in BOOLEAN, has_desc \in BOOLEAN,
        db \in DbResults, pb \in ProcTable, pa \in ProcTable :
       LET before == sample_proc_memory_mb(pb)
           changed == has_name \/ has_desc
       IN
       /\ Received(w, [id |-> id, has_name |-> has_name, has_desc |-> has_desc,
                       len |-> -1, db |-> db])
       /\ IF db = "open_err" THEN Respond(w, "update", 500, <<>>, <<>>) /\ UNCHANGED items
          ELSE IF before.panicked THEN Aborted(w, "update") /\ UNCHANGED items
          ELSE /\ items' = IF db = "ok" THEN update_rows(items, id, has_name, has_desc)
                           ELSE items
               /\ IF changed
                  THEN Finish(w, "update", "UPDATE", before, pa, 200, <<>>,
                              probe_update(has_name, has_desc))
                  ELSE Respond(w, "update", 404, <<>>, <<>>)
  /\ UNCHANGED next_id
  /\ Unchanged_env /\ Unchanged_nonserver

\* DELETE /api/delete/:id
delete_item(w) ==
  /\ Accepts(w)
  /\ \E id \in PathIds, db \in DbResults, pb \in ProcTable, pa \in ProcTable :
       LET before == sample_proc_memory_mb(pb) IN
       /\ Received(w, [id |-> id, has_name |-> FALSE, has_desc |-> FALSE,
                       len |-> -1, db |-> db])
       /\ IF before.panicked THEN Aborted(w, "delete") /\ UNCHANGED items
          ELSE IF db # "ok" THEN Respond(w, "delete", 500, <<>>, <<>>) /\ UNCHANGED items
          ELSE /\ items' = delete_row(items, id)
               /\ Finish(w, "delete", "DELETE", before, pa,
                         IF id \in DOMAIN items THEN 200 ELSE 404, <<>>, probe_delete)
  /\ UNCHANGED next_id
  /\ Unchanged_env /\ Unchanged_nonserver

\* the handler sends the response it prepared; its locals are dropped (and
\* with them the request, see csv_open and csv_write)
Responded(t) == [IdleTask EXCEPT !.op = t.op, !.status = t.status, !.body = t.body]

\* the log with the record put in front
push_front(log, m) == <<m>> \o log

\* Vec::push
push(log, m) == Append(log, m)

\* metrics.lock().push(metric.clone()): one step under the mutex
metrics_push(w) ==
  /\ mpc = "server"
  /\ task[w].pc = "push"
  /\ metrics' = push(metrics, task[w].metric)
  /\ task' = [task EXCEPT ![w].pc = "csv_exists"]
  /\ UNCHANGED <<items, next_id, now, csv, reqs>>
  /\ UNCHANGED request
  /\ Unchanged_env /\ Unchanged_nonserver

\* append_metric_to_csv: let file_exists = Path::new(CSV_FILE).exists()
csv_exists(w) ==
  /\ mpc = "server"
  /\ task[w].pc = "csv_exists"
  /\ task' = [task EXCEPT ![w].file_exists = csv.exists, ![w].pc = "csv_open"]
  /\ UNCHANGED <<items, next_id, metrics, now, csv, reqs>>
  /\ UNCHANGED request
  /\ Unchanged_env /\ Unchanged_nonserver

\* append_metric_to_csv: OpenOptions::new().create(true).append(true).open()?
\* An error returns from the function; the handler drops it (`let _ =`) and
\* sends its response.
csv_open(w) ==
  /\ mpc = "server"
  /\ task[w].pc = "csv_open"
  /\ IF csv_writable
     THEN /\ csv' = [csv EXCEPT !.exists = TRUE]
          /\ task' = [task EXCEPT ![w].pc = "csv_write"]
          /\ UNCHANGED request
     ELSE /\ task' = [task EXCEPT ![w] = Responded(task[w])]
          /\ Received(w, NoRequest)
          /\ UNCHANGED csv
  /\ UNCHANGED <<items, next_id, metrics, now, reqs>>
  /\ Unchanged_env /\ Unchanged_nonserver

\* the lines the writer puts out: has_headers(!file_exists), serialize
HeaderLine == [header |-> TRUE, fields |-> CsvHeader]
csv_output(file_exists, m) ==
  (IF file_exists THEN <<>> ELSE <<HeaderLine>>)
     \o <<[header |-> FALSE, fields |-> serialize(m)]>>

\* append_metric_to_csv: wtr.serialize(metric)?; wtr.flush()?; then the
\* handler's response
csv_write(w) ==
  /\ mpc = "server"
  /\ task[w].pc = "csv_write"
  /\ csv' = [csv EXCEPT !.lines = @ \o csv_output(task[w].file_exists, task[w].metric)]
  /\ task' = [task EXCEPT ![w] = Responded(task[w])]
  /\ UNCHANGED <<items, next_id, metrics, now, reqs>>
  /\ Received(w, NoRequest)
  /\ Unchanged_env /\ Unchanged_nonserver

MaxRestarts == 1

\* The process is stopped and started again with a log to lose and requests
\* still to come: main builds a new empty log; db.sqlite and the CSV file
\* stay as they are.
server_restart ==
  /\ mpc = "server"
  /\ restarts < MaxRestarts
  /\ reqs < MaxRequests
  /\ metrics # <<>>
  /\ \A w \in Workers : task[w].pc = "idle"
  /\ metrics' = <<>>
  /\ task' = [w \in Workers |-> IdleTask]
  /\ request' = [w \in Workers |-> NoRequest]
  /\ restarts' = restarts + 1
  /\ UNCHANGED <<router, proc_visible, csv_writable, items, next_id, now, csv, reqs>>
  /\ Unchanged_nonserver

ServerNext ==
  \/ \E w \in Workers :
       \/ get_database(w)
       \/ get_metrics(w)
       \/ ingest_metrics(w)
       \/ create_item(w)
       \/ bulk_create(w)
       \/ read_all(w)
       \/ read_one(w)
       \/ update_item(w)
       \/ delete_item(w)
       \/ metrics_push(w)
       \/ csv_exists(w)
       \/ csv_open(w)
       \/ csv_write(w)
  \/ server_restart

ServerSpec == ServerInit /\ [][ServerNext]_vars

\* ================================================================ claims
\* Properties of the direct calls are checked under Spec, properties of a
\* run of main under MainSpec.

Present(a, t) == t \in Range(a)
InHarnessRange(a) == \A v \in Range(a) : MIN <= v /\ v < MAX
ReturnedNone == pc = "returned" /\ result = None /\ fault = "none"
ReturnedSome(j) == pc = "returned" /\ result = Some(j) /\ fault = "none"
FoundTarget == pc = "returned" /\ result.some /\ InBounds(arr, result.idx)
               /\ At(arr, result.idx) = target

\* C1: on a non-empty non-decreasing array, a search for a value the array
\* holds that returns, returns Some(j) with arr[j] = target, never None.
C1_FindsPresent ==
  (pc = "returned" /\ Len(arr) >= 1 /\ Present(arr, target)) => FoundTarget

\* C2: on a non-empty non-decreasing array, every ended search that yields
\* Some(j) has j a valid index with arr[j] = target, and every ended search
\* for a target the array does not hold has returned None.
C2_SoundAndAbsentNone ==
  (Halted /\ Len(arr) >= 1) =>
     /\ result.some => FoundTarget
     /\ ~Present(arr, target) => ReturnedNone

\* C3: on a non-empty array with all values in [MIN, MAX), a search for a
\* target below MIN or at least MAX never faults (so never reads outside the
\* array) and, once ended, has returned None.
C3_OutOfRangeNone ==
  (Len(arr) >= 1 /\ InHarnessRange(arr) /\ (target < MIN \/ target >= MAX)) =>
     /\ fault = "none" /\ ~wrapped /\ pc # "panicked"
     /\ Halted => ReturnedNone

C3_Witness ==
  /\ alg = "jump" /\ Len(arr) = 5 /\ InHarnessRange(arr) /\ target = el_grt
  /\ prev > Len(arr) /\ ReturnedNone

\* C4: a search of a zero-length array ends by returning None, with no panic
\* and no wrapped len - 1.
C4_EmptyReturnsNone ==
  (Len(arr) = 0 /\ pc # "idle") =>
     /\ fault = "none" /\ ~wrapped /\ pc # "panicked"
     /\ Halted => ReturnedNone

\* C5: every call reaches a return after finitely many loop iterations: a
\* call that has not returned can take another step, and no call runs more
\* than 2 * len + 2 iterations.
C5_ReachesReturn ==
  /\ iters <= 2 * Len(arr) + 2
  /\ pc \notin {"idle", "returned"} => ENABLED SearchStep

\* C6: on [2,4,4,6,8,10] binary_search for 4 returns Some(1) or Some(2), and
\* every strategy returns None for 5, Some(0) for 2 and Some(5) for 10.
C6_Scenario ==
  (arr = ScenarioArr /\ Halted) =>
     /\ (alg = "binary" /\ target = 4) => (ReturnedSome(1) \/ ReturnedSome(2))
     /\ target = 5 => ReturnedNone
     /\ target = 2 => ReturnedSome(0)
     /\ target = 10 => ReturnedSome(5)

C8_NoFault ==
  Len(arr) >= 1 => (fault = "none" /\ ~wrapped /\ pc # "panicked")

\* C9: once main has read its targets, first, last and middle are elements of
\* the generated array and 50 and 10006 are not.
C9_TargetsPresentAbsent ==
  /\ el_les \notin Range(arr) /\ el_grt \notin Range(arr)
  /\ qi >= 1 => ({first, last, middle} \subseteq Range(arr)
                 /\ Len(arr) = array_size /\ InHarnessRange(arr))

C9_Witness ==
  /\ mpc = "done" /\ Len(arr) = 4 /\ first < middle /\ middle < last

\* C10: main's run is the fixed sequence: generation once and first, then the
\* five searches in the order first, last, middle, below range, above range,
\* each ended and followed by its process_info before the next is called.
RunOrder(a) ==
  <<process_info(before_label(a)),
    <<"generate", "">>, process_info("Array Generation & Sort"),
    <<"println", "targets">>,
    <<"call", "first">>, <<"return", "first">>, process_info("First Element Search"),
    <<"call", "last">>, <<"return", "last">>, process_info("Last Element Search"),
    <<"call", "middle">>, <<"return", "middle">>, process_info("Middle Element Search"),
    <<"call", "el_les">>, <<"return", "el_les">>, process_info("Element < MIN Search"),
    <<"call", "el_grt">>, <<"return", "el_grt">>, process_info("Element > MAX Search")>>

IsPrefix(s, t) == Len(s) <= Len(t) /\ \A k \in 1..Len(s) : s[k] = t[k]

SearchActive == pc \notin {"idle"}

C10_RunOrder ==
  /\ IsPrefix(events, RunOrder(alg))
  /\ mpc # "panicked"
  /\ (mpc = "done") = (events = RunOrder(alg))
  /\ mpc \in {"start", "generate"} => (arr = <<>> /\ ~SearchActive)
  /\ SearchActive => (mpc = "searching" /\ events[Len(events)] = <<"call", query_order[qi]>>)
  /\ mpc = "searching" => target = query_target(qi)

C10_Witness ==
  /\ mpc = "done" /\ alg = "interpolation" /\ Len(arr) = 4 /\ first < last

\* C11 (as stated): a finished run has recorded 20 measurements, numbered
\* 1..20 in recording order, and the durable sink holds one header line
\* followed by the 20 rows.
SearchSamples ==
  SelectSeq(events, LAMBDA e : e[1] = "process_info"
                               /\ \E k \in 1..Len(query_order) : e[2] = query_label(k))

C12_GeneratedArray ==
  /\ [](mpc \notin {"start", "generate"} =>
          (Len(arr) = array_size /\ InHarnessRange(arr) /\ IsSorted(arr)))
  /\ [][mpc \notin {"start", "generate"} => arr' = arr]_vars

C12_Witness ==
  /\ mpc = "done" /\ Len(arr) >= 3
  /\ \E i \in 1..(Len(arr) - 1) : arr[i] = arr[i + 1]
  /\ \E i \in 1..(Len(arr) - 1) : arr[i] < arr[i + 1]

\* C13: with ARRAY_SIZE = 0 generation returns no array, and the run stops
\* there: no target is read and no search is called.
C13_InvalidParametersRejected ==
  array_size = 0 =>
     /\ \A k \in 1..Len(events) : events[k][1] # "generate"
     /\ mpc \in {"start", "generate"}
     /\ pc = "idle"

\* C20: when a search returns None for first, last or middle, main prints
\* that result and goes on with the remaining queries: it does not panic,
\* and a finished run has printed all five results.
NoneForPresent ==
  \E k \in 1..Len(printed) :
     query_order[k] \in {"first", "last", "middle"} /\ ~printed[k].some

RECURSIVE ProbeSteps(_)
ProbeSteps(trace) ==
  IF trace = <<>> THEN <<>>
  ELSE LET e == Head(trace)
           rest == ProbeSteps(Tail(trace))
       IN IF e \in {"open", "rows"} THEN rest
          ELSE IF rest # <<>> /\ Head(rest) = e /\ e = "op" THEN rest
          ELSE <<e>> \o rest

Recording(w) == task[w].pc \in {"push", "csv_exists", "csv_open", "csv_write"}
IngestOperations == {"CLIENT_READ", "UNKNOWN"}
AllIdle == \A w \in Workers : task[w].pc = "idle"

\* C14: a handler that has measured its operation has sampled memory, started
\* the clock, run the operation, stopped the clock and sampled memory again,
\* in that order; the memory it records is the second sample minus the first,
\* and the duration it records is the time between clock start and stop.
C14_ProbeOrder ==
  \A w \in Workers :
     (Recording(w) /\ task[w].op # "ingest_metrics") =>
        /\ ProbeSteps(task[w].probe)
             = <<"mem_before", "clock_start", "op", "clock_stop", "mem_after">>
        /\ task[w].metric.memory_mb = task[w].mem_after - task[w].mem_before
        /\ task[w].metric.execution_time_ms = elapsed(task[w].probe)

\* C15: while the process lives the metrics log only grows at its end, and
\* GET /api/metrics answers with the log as it is, in order, leaving it
\* unchanged.
C15_AppendOnly ==
  [][/\ restarts' = restarts => IsPrefix(metrics, metrics')
     /\ \A w \in Workers :
          (task'[w] # task[w] /\ reqs' = reqs + 1 /\ task'[w].op = "get_metrics") =>
             (task'[w].body = metrics /\ task'[w].status = 200 /\ metrics' = metrics)]_vars

C15_Witness ==
  /\ Len(metrics) = 1
  /\ \E w \in Workers :
       task[w].pc = "idle" /\ task[w].op = "get_metrics" /\ task[w].body = metrics

\* the data rows of the CSV file
DataLines == SelectSeq(csv.lines, LAMBDA l : ~l.header)
CsvRows == [k \in 1..Len(DataLines) |-> DataLines[k].fields]
LogRows == [k \in 1..Len(metrics) |-> serialize(metrics[k])]

\* C16: starting from an empty log and no file, once the handlers have
\* returned the data rows of the CSV file are the records of the log, in the
\* same order, also when the file could not be written.
C16_CsvMirrorsLog ==
  (restarts = 0 /\ AllIdle) => CsvRows = LogRows

\* C17: the CSV file has exactly one header row and it is the first line.
C17_SingleHeader ==
  csv.lines # <<>> =>
     /\ csv.lines[1].header
     /\ \A k \in 2..Len(csv.lines) : ~csv.lines[k].header

\* C18: with handlers recording concurrently and the file writable, no record
\* is lost and the rows of the CSV file are in the order of the log.
C18_SameOrder ==
  (csv_writable /\ restarts = 0) =>
     /\ Len(CsvRows) <= Len(LogRows)
     /\ \A k \in 1..Len(CsvRows) : \E j \in 1..Len(LogRows) : CsvRows[k] = LogRows[j]
     /\ AllIdle => CsvRows = LogRows

\* C19: when the sampler does not find the process, no handler is aborted,
\* the metric of a measured operation is built and recorded in the log, and
\* its memory delta is zero.
C19_ZeroDeltaWhenInvisible ==
  ~proc_visible =>
     /\ \A w \in Workers : (task[w].pc = "idle" /\ task[w].op # "") => task[w].status # 0
     /\ \A w \in Workers :
          task[w].pc \in {"csv_exists", "csv_open", "csv_write"} =>
             \E k \in 1..Len(metrics) : metrics[k] = task[w].metric
     /\ \A w \in Workers :
          (Recording(w) /\ task[w].op # "ingest_metrics") => task[w].metric.memory_mb = 0
     /\ \A k \in 1..Len(metrics) :
          metrics[k].operation \notin IngestOperations => metrics[k].memory_mb = 0

C19_Witness ==
  /\ ~proc_visible /\ AllIdle /\ Len(metrics) = 2
  /\ metrics[1].operation = "CREATE" /\ metrics[1].memory_mb = 0
  /\ metrics[2].operation = "DELETE" /\ DOMAIN items = {1}

\* C21: on any array, sorted or not, linear_search looks at the indices
\* 0, 1, 2, ... one per iteration in increasing order; no index below the
\* current one holds the target; Some(i) is returned at the scan position i
\* with arr[i] = target, so i is the smallest such index; None is returned
\* only once all N elements have been passed.
C21_LinearFirstIndex ==
  /\ [](alg = "linear" /\ pc \in {"linear_loop", "returned"} =>
          /\ idx \in 0..Len(arr)
          /\ \A j \in 0..(idx - 1) : At(arr, j) # target
          /\ pc = "returned" =>
               /\ fault = "none"
               /\ result.some => (result.idx = idx /\ idx < Len(arr)
                                  /\ At(arr, idx) = target)
               /\ ~result.some => idx = Len(arr))
  /\ [][pc = "linear_loop" =>
          \/ pc' = "linear_loop" /\ idx' = idx + 1
          \/ pc' = "returned" /\ idx' = idx]_vars

C21_Witness ==
  /\ alg = "linear" /\ ~IsSorted(arr) /\ Len(arr) = 3
  /\ ReturnedSome(1) /\ At(arr, 2) = target /\ At(arr, 0) > target

\* C22: in binary_search on a non-decreasing array, whenever the loop body
\* runs (low <= high) the midpoint mid = floor((low + high) / 2) satisfies
\* 0 <= low <= mid <= high <= N - 1; every index holding the target lies in
\* [low, high]; each iteration that continues moves low to mid + 1 or high
\* to mid - 1 and so makes high - low + 1 strictly smaller; Some is returned
\* at mid, and None is returned exactly when low > high.
C22_BinaryWindow ==
  /\ [](alg = "binary" /\ pc \in {"binary_loop", "returned"} =>
          /\ fault = "none"
          /\ \A j \in 0..(Len(arr) - 1) :
               At(arr, j) = target => (low <= j /\ j <= high)
          /\ low <= high =>
               /\ 0 <= low /\ low <= (low + high) \div 2
               /\ (low + high) \div 2 <= high /\ high <= Len(arr) - 1
          /\ pc = "returned" => (~result.some <=> low > high)
          /\ (pc = "returned" /\ result.some) => result.idx = (low + high) \div 2)
  /\ [][(alg = "binary" /\ pc = "binary_loop" /\ pc' = "binary_loop") =>
          /\ low <= high
          /\ \/ low' = (low + high) \div 2 + 1 /\ high' = high
             \/ low' = low /\ high' = (low + high) \div 2 - 1
          /\ high' - low' + 1 < high - low + 1]_vars

C22_Witness ==
  /\ alg = "binary" /\ Len(arr) = 5 /\ pc = "binary_loop" /\ iters = 2
  /\ low = 1 /\ high = 1 /\ At(arr, 1) = target /\ At(arr, 0) < target

\* C23: jump_search on an empty array has step = 0, never runs the body of
\* the block-advance loop (prev stays 0), never panics or wraps (arr[n - 1]
\* is not evaluated), and returns None after one evaluation of the loop
\* condition and one of the empty scan range; for N >= 1 the step is >= 1.
C23_JumpEmptyAndStep ==
  (alg = "jump" /\ pc # "idle") =>
     /\ Len(arr) = 0 =>
          /\ step = 0 /\ prev = 0 /\ idx = 0
          /\ fault = "none" /\ ~wrapped /\ pc # "panicked"
          /\ iters <= 2
          /\ Halted => (ReturnedNone /\ iters = 2)
          /\ ~Halted => ENABLED SearchStep
     /\ Len(arr) >= 1 => step >= 1

C23_Witness ==
  /\ alg = "jump" /\ Len(arr) = 0 /\ ReturnedNone
  /\ step = 0 /\ prev = 0 /\ iters = 2 /\ calls = 2

\* C24: jump_search has step = floor(sqrt(N)); prev goes 0, step, 2 step, ...
\* while prev < N and arr[prev] < target; the scan then visits the indices
\* from max(0, prev - step) up to but not including min(prev, N), one after
\* the other, returns the first that holds the target and None when the
\* range is used up; index prev itself is never examined by the scan.
C24_ScanStart == IF prev >= step THEN prev - step ELSE 0
C24_ScanEnd == IF prev <= Len(arr) THEN prev ELSE Len(arr)

C24_JumpBlocks ==
  /\ [](alg = "jump" /\ pc # "idle" =>
          /\ step * step <= Len(arr) /\ Len(arr) < (step + 1) * (step + 1)
          /\ fault = "none"
          /\ \A q \in 0..(prev - 1) :
               (step > 0 /\ q % step = 0) => (q < Len(arr) /\ At(arr, q) < target)
          /\ step > 0 => prev % step = 0
          /\ pc \in {"jump_scan", "returned"} =>
               /\ ~(prev < Len(arr) /\ At(arr, prev) < target)
               /\ C24_ScanStart <= idx /\ idx <= C24_ScanEnd
               /\ \A j \in C24_ScanStart..(idx - 1) : At(arr, j) # target
               /\ (pc = "returned" /\ result.some) =>
                    /\ result.idx = idx /\ idx < C24_ScanEnd /\ idx # prev
                    /\ At(arr, idx) = target
               /\ (pc = "returned" /\ ~result.some) => idx = C24_ScanEnd)
  /\ [][alg = "jump" =>
          /\ pc = "jump_advance" =>
               \/ pc' = "jump_advance" /\ prev' = prev + step
               \/ pc' = "jump_scan" /\ prev' = prev /\ idx' = C24_ScanStart
          /\ pc = "jump_scan" =>
               /\ prev' = prev
               /\ \/ pc' = "jump_scan" /\ idx' = idx + 1 /\ idx < C24_ScanEnd
                  \/ pc' = "returned" /\ idx' = idx]_vars

C24_Witness ==
  /\ alg = "jump" /\ ReturnedNone /\ step = 2 /\ prev = 2 /\ idx = 2
  /\ Len(arr) = 5 /\ At(arr, prev) = target

\* the body of interpolation_search's loop is entered from the current state
InterpolationBody ==
  /\ alg = "interpolation" /\ pc = "interpolation_loop"
  /\ interpolation_exit(arr, target, low, high) = "continue"

\* C25: when the loop body of interpolation_search is entered with
\* arr[high] = arr[low], the call returns in that iteration, Some(low) if
\* arr[low] = target and None otherwise; when the quotient is evaluated (the
\* body is entered with arr[high] # arr[low] and the subtractions did not
\* panic) its denominator arr[high] - arr[low], as the build computed it, is
\* greater than 0.
C25_PositiveDenominator ==
  [][InterpolationBody =>
       /\ At(arr, high) = At(arr, low) =>
            /\ pc' = "returned" /\ fault' = "none"
            /\ result' = (IF At(arr, low) = target THEN Some(low) ELSE None)
       /\ (At(arr, high) # At(arr, low) /\ fault' # "arithmetic_overflow") =>
            I32Wrap(At(arr, high) - At(arr, low)) > 0]_vars

\* low <= high and arr[low] <= target <= arr[high], on indices of the array
InterpolationCondition ==
  /\ low <= high /\ InBounds(arr, low) /\ InBounds(arr, high)
  /\ At(arr, low) <= target /\ target <= At(arr, high)

\* C26: a step of interpolation_search's loop leads to another iteration
\* only if low <= high and arr[low] <= target <= arr[high] held; when that
\* condition does not hold the step returns None; and while the search runs
\* and when it has returned, every index holding the target is in
\* [low, high].
C26_GuardAndWindow ==
  /\ [](alg = "interpolation" /\ pc # "idle" =>
          \A j \in 0..(Len(arr) - 1) :
             At(arr, j) = target => (low <= j /\ j <= high))
  /\ [][(alg = "interpolation" /\ pc = "interpolation_loop") =>
          /\ pc' = "interpolation_loop" => InterpolationCondition
          /\ ~InterpolationCondition =>
               (pc' = "returned" /\ result' = None /\ fault' = "none")]_vars

\* pos = low + floor((high - low) * (target - arr[low]) / (arr[high] - arr[low]))
\* in exact arithmetic, for a state in which the loop body is entered with
\* arr[high] # arr[low]
C27_pos ==
  low + ((high - low) * (target - At(arr, low))) \div (At(arr, high) - At(arr, low))

\* C27: on a non-empty non-decreasing array, an iteration of
\* interpolation_search that computes the probe position does not fault,
\* has low <= pos <= high <= N - 1, compares arr[pos], and leaves
\* (pos + 1, high), (low, pos - 1) with pos >= 1, or returns.
C27_ProbeInWindow ==
  [][(InterpolationBody /\ Len(arr) >= 1 /\ At(arr, high) # At(arr, low)) =>
       /\ fault' = "none" /\ pc' # "panicked"
       /\ low <= C27_pos /\ C27_pos <= high /\ high <= Len(arr) - 1
       /\ (pc' = "returned" /\ result'.some) => result'.idx = C27_pos
       /\ pc' = "interpolation_loop" =>
            \/ low' = C27_pos + 1 /\ high' = high /\ At(arr, C27_pos) < target
            \/ low' = low /\ high' = C27_pos - 1 /\ high' >= 0
               /\ At(arr, C27_pos) > target]_vars

\* the worker that takes the next request, and the step in which worker w's
\* handler op is called
Acting == IF task["w1"].pc = "idle" THEN "w1" ELSE "w2"
Called(w, op) == mpc = "server" /\ reqs' = reqs + 1 /\ w = Acting /\ task'[w].op = op

\* how many records of the log are the metric worker w has built
RecordedTimes(w) == Cardinality({k \in 1..Len(metrics) : metrics[k] = task[w].metric})

\* a handler call that goes on to record a metric of the given operation
\* once: not in the log before the push, once in it from the push to the
\* response
RecordsOnce(op, operation) ==
  \A w \in Workers :
     (task[w].op = op /\ Recording(w)) =>
        /\ task[w].metric.operation = operation
        /\ RecordedTimes(w) = (IF task[w].pc = "push" THEN 0 ELSE 1)

\* the step answers at once with the status, records nothing, changes no item
AnswersUnrecorded(w, status) ==
  /\ task'[w].pc = "idle" /\ task'[w].status = status
  /\ metrics' = metrics /\ items' = items

\* C28 as stated: a call of update_item whose payload has a string name or a
\* string description answers 200 and records one UPDATE metric, whatever
\* the id; a call answered 404 had a payload with neither and records no
\* metric; no call adds an item.
C28_UpdateAnswers ==
  /\ [](mpc = "server" => RecordsOnce("update", "UPDATE"))
  /\ [][\A w \in Workers : Called(w, "update") =>
          /\ (request'[w].has_name \/ request'[w].has_desc) =>
               (task'[w].pc = "push" /\ task'[w].status = 200)
          /\ task'[w].status = 404 =>
               /\ ~(request'[w].has_name \/ request'[w].has_desc)
               /\ AnswersUnrecorded(w, 404)
          /\ DOMAIN items' = DOMAIN items]_vars

\* C28 amended: the same for every call in which the database can be opened
\* (whether or not the UPDATE statements then succeed); when it cannot be
\* opened the call answers 500, records no metric and changes no item.
C28_UpdateAnswersIfOpened ==
  /\ [](mpc = "server" => RecordsOnce("update", "UPDATE"))
  /\ [][\A w \in Workers : Called(w, "update") =>
          /\ (request'[w].db # "open_err"
                /\ (request'[w].has_name \/ request'[w].has_desc)) =>
               (task'[w].pc = "push" /\ task'[w].status = 200)
          /\ task'[w].status = 404 =>
               /\ ~(request'[w].has_name \/ request'[w].has_desc)
               /\ AnswersUnrecorded(w, 404)
          /\ request'[w].db = "open_err" => AnswersUnrecorded(w, 500)
          /\ DOMAIN items' = DOMAIN items]_vars

C28_Witness ==
  /\ mpc = "server"
  /\ \E w \in Workers :
       /\ task[w].op = "update" /\ task[w].pc = "csv_exists" /\ task[w].status = 200
       /\ request[w].id \notin DOMAIN items /\ request[w].has_desc
       /\ ~request[w].has_name /\ request[w].db = "exec_err"
       /\ RecordedTimes(w) = 1 /\ metrics[Len(metrics)].operation = "UPDATE"

\* the table without the row of the id
WithoutRow(id) == [i \in DOMAIN items \ {id} |-> items[i]]

\* ids are never handed out twice: a row that appears has a fresh id
FreshRows == \A i \in DOMAIN items' \ DOMAIN items : i > next_id

\* C29 as stated: a call of delete_item answers 200 when the table had a row
\* with the id, which is then removed, and 404 otherwise with the table
\* unchanged; in both cases it goes on to append one DELETE metric to the
\* log; a removed id does not come back, so a second delete of it gets 404.
C29_DeleteAnswers ==
  /\ [](mpc = "server" => RecordsOnce("delete", "DELETE"))
  /\ [][mpc = "server" => FreshRows]_vars
  /\ [][\A w \in Workers : Called(w, "delete") =>
          /\ task'[w].pc = "push"
          /\ request'[w].id \in DOMAIN items =>
               (task'[w].status = 200 /\ items' = WithoutRow(request'[w].id))
          /\ request'[w].id \notin DOMAIN items =>
               (task'[w].status = 404 /\ items' = items)]_vars

\* C29 amended: the same for every call in which the database opens and the
\* DELETE statement executes; when either fails the call answers 500,
\* removes nothing and appends no metric.
C29_DeleteAnswersIfExecuted ==
  /\ [](mpc = "server" => RecordsOnce("delete", "DELETE"))
  /\ [][mpc = "server" => FreshRows]_vars
  /\ [][\A w \in Workers : Called(w, "delete") =>
          /\ request'[w].db = "ok" =>
               /\ task'[w].pc = "push"
               /\ request'[w].id \in DOMAIN items =>
                    (task'[w].status = 200 /\ items' = WithoutRow(request'[w].id))
               /\ request'[w].id \notin DOMAIN items =>
                    (task'[w].status = 404 /\ items' = items)
          /\ request'[w].db # "ok" => AnswersUnrecorded(w, 500)]_vars

C29_Witness ==
  /\ mpc = "server" /\ restarts = 0 /\ Len(metrics) = 2
  /\ metrics[1].operation = "DELETE" /\ metrics[2].operation = "DELETE"
  /\ \E w \in Workers :
       /\ task[w].op = "delete" /\ task[w].pc = "csv_exists" /\ task[w].status = 404
       /\ request[w].id = 1 /\ DOMAIN items = {}
       /\ RecordedTimes(w) = 1

\* the rows a step adds to the table
AddedRows == DOMAIN items' \ DOMAIN items

\* C30: a call of bulk_create whose body is not a JSON array is answered at
\* once, inserts nothing and records nothing; a call with an array of k
\* elements keeps the rows there were and either commits all k inserts and
\* goes on to record one metric named BULK_CREATE_k, or commits none and
\* records none.
C30_BulkAllOrNothing ==
  /\ [](mpc = "server" =>
          \A w \in Workers :
             (task[w].op = "bulk_create" /\ Recording(w)) =>
                /\ task[w].metric.operation = "BULK_CREATE_" \o ToString(request[w].len)
                /\ RecordedTimes(w) = (IF task[w].pc = "push" THEN 0 ELSE 1))
  /\ [][\A w \in Workers : Called(w, "bulk_create") =>
          /\ request'[w].len = -1 =>
               (AnswersUnrecorded(w, 400) \/ AnswersUnrecorded(w, 500))
          /\ request'[w].len >= 0 =>
               /\ \A i \in DOMAIN items : i \in DOMAIN items' /\ items'[i] = items[i]
               /\ \/ /\ Cardinality(AddedRows) = request'[w].len
                     /\ task'[w].pc = "push" /\ task'[w].status = 201
                  \/ /\ AddedRows = {}
                     /\ task'[w].pc = "idle" /\ metrics' = metrics]_vars

====
